---------------------------- MODULE Spec2Model ----------------------------
(***************************************************************************)
(* Deep-unfolded iterative solvers (SORNet, SORChebyNet, AORNet,           *)
(* RichardsonNet) of deep_unfolding/unfolding_solvers.py, with the shared  *)
(* deep_train and evaluate of UnfoldingNet.                                *)
(*                                                                         *)
(* Tensors are matrices (sequences of rows) of exact rationals; a rational *)
(* is a pair <<numerator, denominator>> in lowest terms with a positive    *)
(* denominator.  Floating-point rounding is not modelled.                  *)
(***************************************************************************)
EXTENDS Integers, Sequences, FiniteSets, TLC

-----------------------------------------------------------------------------
(* Exact rational arithmetic (the tensors' element type).                  *)

Abs(x) == IF x < 0 THEN -x ELSE x

RECURSIVE GCD(_, _)
GCD(a, b) == IF b = 0 THEN a ELSE GCD(b, a % b)

Rat(n, d) ==
    LET g  == GCD(Abs(n), Abs(d))
        sg == IF d < 0 THEN -1 ELSE 1
    IN  << (sg * n) \div g, (sg * d) \div g >>

RZero == << 0, 1 >>
ROne  == << 1, 1 >>
RInt(n) == << n, 1 >>

RAdd(p, q) ==
    LET g == GCD(p[2], q[2])
    IN  Rat(p[1] * (q[2] \div g) + q[1] * (p[2] \div g), (p[2] \div g) * q[2])
RNeg(p)    == << -p[1], p[2] >>
RSub(p, q) == RAdd(p, RNeg(q))
RMul(p, q) ==
    LET g1 == GCD(Abs(p[1]), q[2])
        g2 == GCD(Abs(q[1]), p[2])
    IN  Rat((p[1] \div g1) * (q[1] \div g2), (p[2] \div g2) * (q[2] \div g1))
RRecip(p)  == Rat(p[2], p[1])
RDiv(p, q) == RMul(p, RRecip(q))

-----------------------------------------------------------------------------
(* Tensor operations used by the solvers.                                  *)

Rows(X) == Len(X)
Cols(X) == Len(X[1])

zeros(r, c) == [i \in 1..r |-> [j \in 1..c |-> RZero]]

zeros_like(X) == zeros(Rows(X), Cols(X))

Transpose(X) == [j \in 1..Cols(X) |-> [i \in 1..Rows(X) |-> X[i][j]]]

RECURSIVE DotTo(_, _, _, _)
DotTo(X, i, Y, jk) ==
    (* sum over t = 1..jk[2] of X[i][t] * Y[t][jk[1]] *)
    IF jk[2] = 0 THEN RZero
    ELSE RAdd(DotTo(X, i, Y, << jk[1], jk[2] - 1 >>),
              RMul(X[i][jk[2]], Y[jk[2]][jk[1]]))

matmul(X, Y) ==
    [i \in 1..Rows(X) |-> [j \in 1..Cols(Y) |-> DotTo(X, i, Y, << j, Rows(Y) >>)]]

MAdd(X, Y) == [i \in 1..Rows(X) |-> [j \in 1..Cols(X) |-> RAdd(X[i][j], Y[i][j])]]
MSub(X, Y) == [i \in 1..Rows(X) |-> [j \in 1..Cols(X) |-> RSub(X[i][j], Y[i][j])]]
Scale(c, X) == [i \in 1..Rows(X) |-> [j \in 1..Cols(X) |-> RMul(c, X[i][j])]]


(* torch.linalg.inv of a lower-triangular matrix: the only arguments the   *)
(* solvers pass are d, inv_omega * D + L and L - r * D.  It raises a       *)
(* LinAlgError exactly when a diagonal entry is zero.                      *)
Singular(M) == \E i \in 1..Rows(M) : M[i][i] = RZero

RECURSIVE SumLX(_, _, _, _)
SumLX(M, i, P, jk) ==
    (* sum over t = 1..jk[2] of M[i][t] * P[t][jk[1]] *)
    IF jk[2] = 0 THEN RZero
    ELSE RAdd(SumLX(M, i, P, << jk[1], jk[2] - 1 >>),
              RMul(M[i][jk[2]], P[jk[2]][jk[1]]))

RECURSIVE InvRows(_, _)
InvRows(M, i) ==
    (* the first i rows of the inverse, by forward substitution *)
    IF i = 0 THEN << >>
    ELSE LET P == InvRows(M, i - 1)
             row == [j \in 1..Rows(M) |->
                       IF j > i THEN RZero
                       ELSE RDiv(RSub(IF j = i THEN ROne ELSE RZero,
                                      SumLX(M, i, P, << j, i - 1 >>)),
                                 M[i][i])]
         IN  Append(P, row)

linalg_inv(M) == InvRows(M, Rows(M))

(* _decompose_matrix(a): the diagonal, strictly lower and strictly upper   *)
(* parts of a.                                                             *)
DiagPart(a)  == [i \in 1..Rows(a) |-> [j \in 1..Cols(a) |-> IF i = j THEN a[i][j] ELSE RZero]]
LowerPart(a) == [i \in 1..Rows(a) |-> [j \in 1..Cols(a) |-> IF i > j THEN a[i][j] ELSE RZero]]
UpperPart(a) == [i \in 1..Rows(a) |-> [j \in 1..Cols(a) |-> IF i < j THEN a[i][j] ELSE RZero]]

-----------------------------------------------------------------------------
(* Bounds and input sets.                                                  *)

MaxItr   == 3    \* largest num_itr passed to forward / evaluate
MaxK     == 2    \* largest per-iteration coefficient length of SORChebyNet
MaxGen   == 3    \* largest total_itr passed to deep_train
MaxBatch == 2    \* largest num_batch passed to deep_train

IntMat(X) == [i \in 1..Len(X) |-> [j \in 1..Len(X[i]) |-> RInt(X[i][j])]]

(* Construction inputs a, h, bs, y.  The second has bs = 3 and n = 2, for  *)
(* which A * x_hat does not broadcast; the third has a 1 x 2 matrix H.     *)
Problems ==
    { [a |-> IntMat(<< <<2, 1>>, <<1, 2>> >>), h |-> IntMat(<< <<1, 0>>, <<0, 1>> >>),
       bs |-> 2, y |-> IntMat(<< <<3, 3>>, <<2, 1>> >>)],
      [a |-> IntMat(<< <<1, 1>>, <<0, 2>> >>), h |-> IntMat(<< <<1, 0>>, <<0, 1>> >>),
       bs |-> 3, y |-> IntMat(<< <<1, 1>>, <<0, 2>>, <<1, 3>> >>)],
      [a |-> IntMat(<< <<2>> >>), h |-> IntMat(<< <<1, 1>> >>),
       bs |-> 1, y |-> IntMat(<< <<1, 1>> >>)] }

Variants == {"SORNet", "SORChebyNet", "AORNet", "RichardsonNet"}

(* Values a scalar coefficient takes, at construction and after a step.    *)
CoefVals == {RZero, ROne, Rat(1, 2)}

(* Values a per-iteration coefficient vector of length k takes.            *)
VecVals(k) == {[j \in 1..k |-> v] : v \in {ROne, RInt(2)}}
                 \cup {[j \in 1..k |-> RInt(j - 1)]}

-----------------------------------------------------------------------------
VARIABLES
    variant,      \* the class of the instance
    A, D, L, U, Dinv, H, y, bs,     \* the fields _A, _D, _L, _U, _Dinv, _H, _y, _bs
    inv_omega, gamma, omega, r,     \* the learnable coefficients (nn.Parameter)
    pc,           \* position of the running deep_train call, or "idle"
    total_itr, num_batch,           \* arguments of the running deep_train call
    gen, i,       \* loop variables of deep_train
    x_hat,        \* local x_hat of deep_train
    loss,         \* local loss of deep_train, "unbound" until first assigned
    loss_gen,     \* local loss_gen of deep_train
    nsteps,       \* number of optimizer.step() calls made by the running call
    depth,        \* num_itr of the last forward pass deep_train ran, 0 if none
    err,          \* the exception that ended deep_train, "none" otherwise
    ret           \* what the last forward / evaluate call returned or raised

fields == << variant, A, D, L, U, Dinv, H, y, bs >>
coefs  == << inv_omega, gamma, omega, r >>
locals == << pc, total_itr, num_batch, gen, i, x_hat, loss, loss_gen, nsteps, depth, err >>
vars   == << fields, coefs, locals, ret >>

(* Attributes UnfoldingNet.__init__ and the subclasses set on self.        *)
InstanceAttrs ==
    {"device", "_A", "_D", "_L", "_U", "_H", "_Dinv", "_bs", "_y",
     "inv_omega", "gamma", "omega", "r"}

Raised(e) == [status |-> e, s |-> << >>, traj |-> << >>]
Returned(s, traj) == [status |-> "ok", s |-> s, traj |-> traj]

(* --- SORNet.forward ---------------------------------------------------- *)
SORStep(s, m_inv, yMF) ==
    LET temp == MAdd(matmul(s, MSub(Scale(RSub(inv_omega, ROne), D), U)), yMF)
    IN  matmul(temp, m_inv)

(* The SOR loop appending the estimate before it is updated. *)
RECURSIVE SORLoop_stale(_, _, _, _)
SORLoop_stale(st, k, m_inv, yMF) ==
    IF k <= 0 THEN st
    ELSE LET s == SORStep(st.s, m_inv, yMF)
         IN  SORLoop_stale([s |-> s, traj |-> Append(st.traj, st.s)], k - 1, m_inv, yMF)

RECURSIVE SORLoop(_, _, _, _)
SORLoop(st, k, m_inv, yMF) ==
    IF k <= 0 THEN st
    ELSE LET s == SORStep(st.s, m_inv, yMF)
         IN  SORLoop([s |-> s, traj |-> Append(st.traj, s)], k - 1, m_inv, yMF)

SORNet_forward(num_itr) ==
    LET M == MAdd(Scale(inv_omega, D), L)
    IN  IF Singular(M) THEN Raised("LinAlgError")
        ELSE LET m_inv == linalg_inv(M)
                 traj0 == << zeros(bs, Rows(H)) >>
                 yMF   == matmul(y, Transpose(H))
                 s1    == matmul(yMF, Dinv)
                 fin   == SORLoop([s |-> s1, traj |-> traj0], num_itr, m_inv, yMF)
             IN  Returned(fin.s, fin.traj)

(* --- SORChebyNet.forward ----------------------------------------------- *)
(* The blend ending in + s_present instead of + s_old. *)
ChebyBlend_present(s, s_present, s_old, om, ga) ==
    MAdd(Scale(om, MAdd(Scale(ga, MSub(s, s_present)), MSub(s_present, s_old))), s_present)

ChebyBlend(s, s_present, s_old, om, ga) ==
    MAdd(Scale(om, MAdd(Scale(ga, MSub(s, s_present)), MSub(s_present, s_old))), s_old)

(* The Chebyshev loop stopping at the end of the coefficient vectors      *)
(* instead of indexing past it.                                            *)
RECURSIVE ChebyLoop_truncating(_, _, _, _)
ChebyLoop_truncating(st, k, m_inv, yMF) ==
    IF st.i >= k \/ st.i + 1 > Len(omega) \/ st.i + 1 > Len(gamma) THEN st
    ELSE LET s     == SORStep(st.s, m_inv, yMF)
             s_new == ChebyBlend(s, st.s_present, st.s_old,
                                 omega[st.i + 1], gamma[st.i + 1])
         IN  ChebyLoop_truncating([status |-> "ok", i |-> st.i + 1, s |-> s,
                                   s_new |-> s_new, s_old |-> s, s_present |-> s_new,
                                   traj |-> Append(st.traj, s_new)], k, m_inv, yMF)

RECURSIVE ChebyLoop(_, _, _, _)
ChebyLoop(st, k, m_inv, yMF) ==
    (* st.i is the 0-based loop index; omega[i] and gamma[i] raise an      *)
    (* IndexError when i is not below the length of the vectors            *)
    IF st.i >= k THEN st
    ELSE IF st.i + 1 > Len(omega) \/ st.i + 1 > Len(gamma)
         THEN [st EXCEPT !.status = "IndexError"]
         ELSE LET s     == SORStep(st.s, m_inv, yMF)
                  s_new == ChebyBlend(s, st.s_present, st.s_old,
                                      omega[st.i + 1], gamma[st.i + 1])
              IN  ChebyLoop([status |-> "ok", i |-> st.i + 1, s |-> s, s_new |-> s_new,
                             s_old |-> s, s_present |-> s_new,
                             traj |-> Append(st.traj, s_new)], k, m_inv, yMF)

SORChebyNet_forward(num_itr) ==
    LET M == MAdd(Scale(inv_omega, D), L)
    IN  IF Singular(M) THEN Raised("LinAlgError")
        ELSE LET m_inv == linalg_inv(M)
                 s0    == zeros(bs, Rows(H))
                 yMF   == matmul(y, Transpose(H))
                 s1    == matmul(yMF, Dinv)
                 fin   == ChebyLoop([status |-> "ok", i |-> 0, s |-> s1, s_new |-> s0,
                                     s_old |-> zeros_like(s1), s_present |-> s1,
                                     traj |-> << s0 >>], num_itr, m_inv, yMF)
             IN  IF fin.status = "ok" THEN Returned(fin.s_new, fin.traj)
                 ELSE Raised(fin.status)

(* --- AORNet.forward ---------------------------------------------------- *)
AORStep(s, m_inv, n, yMF) == MAdd(matmul(s, matmul(m_inv, n)), matmul(yMF, m_inv))

RECURSIVE AORLoop(_, _, _, _)
AORLoop(st, k, mn, yMF) ==
    IF k <= 0 THEN st
    ELSE LET s == AORStep(st.s, mn[1], mn[2], yMF)
         IN  AORLoop([s |-> s, traj |-> Append(st.traj, s)], k - 1, mn, yMF)

AORMatrixN ==
    MAdd(MAdd(Scale(RSub(ROne, omega), D), Scale(RSub(omega, r), L)), Scale(omega, U))

AORNet_forward(num_itr) ==
    LET M == MSub(L, Scale(r, D))
    IN  IF Singular(M) THEN Raised("LinAlgError")
        ELSE LET m_inv == linalg_inv(M)
                 traj0 == << zeros(bs, Rows(H)) >>
                 yMF   == matmul(y, Transpose(H))
                 s1    == matmul(yMF, Dinv)
                 fin   == AORLoop([s |-> s1, traj |-> traj0], num_itr,
                                  << m_inv, AORMatrixN >>, yMF)
             IN  Returned(fin.s, fin.traj)

(* --- RichardsonNet.forward --------------------------------------------- *)
RichardsonStep(s, yMF) == MAdd(s, Scale(inv_omega, MSub(yMF, matmul(s, A))))

RECURSIVE RichardsonLoop(_, _, _)
RichardsonLoop(st, k, yMF) ==
    IF k <= 0 THEN st
    ELSE LET s == RichardsonStep(st.s, yMF)
         IN  RichardsonLoop([s |-> s, traj |-> Append(st.traj, s)], k - 1, yMF)

RichardsonNet_forward(num_itr) ==
    (* the zeros(...) call reads self._device *)
    IF "_device" \notin InstanceAttrs THEN Raised("AttributeError")
    ELSE LET traj0 == << zeros(bs, Rows(A)) >>
             yMF   == matmul(y, Transpose(H))
             s1    == matmul(yMF, Dinv)
             fin   == RichardsonLoop([s |-> s1, traj |-> traj0], num_itr, yMF)
         IN  Returned(fin.s, fin.traj)

(* self(num_itr): dispatch on the class of the instance.                   *)
forward(num_itr) ==
    CASE variant = "SORNet"        -> SORNet_forward(num_itr)
      [] variant = "SORChebyNet"   -> SORChebyNet_forward(num_itr)
      [] variant = "AORNet"        -> AORNet_forward(num_itr)
      [] variant = "RichardsonNet" -> RichardsonNet_forward(num_itr)

(* --- UnfoldingNet.evaluate --------------------------------------------- *)
RECURSIVE SumSq(_, _)
SumSq(X, k) ==
    (* sum of the squares of the first k entries of X, row by row *)
    IF k = 0 THEN RZero
    ELSE LET row == ((k - 1) \div Cols(X)) + 1
             col == ((k - 1) % Cols(X)) + 1
         IN  RAdd(SumSq(X, k - 1), RMul(X[row][col], X[row][col]))

(* torch.norm(X) ** 2: the square of the Frobenius norm.                   *)
NormSquared(X) == SumSq(X, Rows(X) * Cols(X))

(* evaluate with the differences summed instead of their squares. *)
RECURSIVE SumEntries(_, _)
SumEntries(X, k) ==
    IF k = 0 THEN RZero
    ELSE LET row == ((k - 1) \div Cols(X)) + 1
             col == ((k - 1) % Cols(X)) + 1
         IN  RAdd(SumEntries(X, k - 1), X[row][col])

evaluate_unsquared(solution, f) ==
    IF f.status # "ok" THEN [status |-> f.status, err |-> RZero]
    ELSE IF Rows(A) * bs = 0 THEN [status |-> "ZeroDivisionError", err |-> RZero]
    ELSE LET X == MSub(solution, f.s)
         IN  [status |-> "ok",
              err |-> RDiv(SumEntries(X, Rows(X) * Cols(X)), RInt(Rows(A) * bs))]

(* The statements of evaluate after s_hat, _ = self(num_itr), where f is   *)
(* what self(num_itr) returned or raised.                                  *)
evaluate_with(solution, f) ==
    IF f.status # "ok" THEN [status |-> f.status, err |-> RZero]
    ELSE IF Rows(A) * bs = 0 THEN [status |-> "ZeroDivisionError", err |-> RZero]
    ELSE [status |-> "ok",
          err |-> RDiv(NormSquared(MSub(solution, f.s)), RInt(Rows(A) * bs))]

evaluate(solution, num_itr) == evaluate_with(solution, forward(num_itr))

-----------------------------------------------------------------------------
(* Construction.                                                           *)

ones(v, k) == [j \in 1..k |-> v]

NoLocals ==
    /\ pc = "idle" /\ total_itr = 0 /\ num_batch = 0 /\ gen = 0 /\ i = 0
    /\ x_hat = << >> /\ loss = << >> /\ loss_gen = << >> /\ nsteps = 0
    /\ depth = 0 /\ err = "none"

NoRet == [op |-> "none", status |-> "none", num_itr |-> 0, s |-> << >>,
          traj |-> << >>, solution |-> << >>, err |-> RZero]

(* UnfoldingNet.__init__ *)
InitFields(p) ==
    /\ A = p.a
    /\ D = DiagPart(p.a)
    /\ L = LowerPart(p.a)
    /\ U = UpperPart(p.a)
    /\ H = p.h
    /\ Dinv = linalg_inv(DiagPart(p.a))
    /\ bs = p.bs
    /\ y = p.y

SORNet_init ==
    /\ variant = "SORNet"
    /\ inv_omega \in CoefVals
    /\ gamma = << >> /\ omega = RZero /\ r = RZero

SORChebyNet_init ==
    /\ variant = "SORChebyNet"
    /\ \E k \in 0..MaxK :
          /\ gamma \in {ones(v, k) : v \in {ROne, RInt(2)}}
          /\ omega \in {ones(v, k) : v \in {ROne, RInt(2)}}
    /\ inv_omega \in CoefVals
    /\ r = RZero

AORNet_init ==
    /\ variant = "AORNet"
    /\ r \in CoefVals
    /\ omega \in CoefVals
    /\ inv_omega = RZero /\ gamma = << >>

RichardsonNet_init ==
    /\ variant = "RichardsonNet"
    /\ inv_omega \in CoefVals
    /\ gamma = << >> /\ omega = RZero /\ r = RZero

Init ==
    /\ \E p \in Problems : InitFields(p)
    /\ \/ SORNet_init
       \/ SORChebyNet_init
       \/ AORNet_init
       \/ RichardsonNet_init
    /\ NoLocals
    /\ ret = NoRet

-----------------------------------------------------------------------------
(* Calls of forward, evaluate and deep_train by the caller.  Python runs   *)
(* one call at a time, so a call starts only while no deep_train call is   *)
(* active.                                                                 *)

Callable == pc = "idle"

DropLocals ==
    /\ pc' = "idle" /\ total_itr' = 0 /\ num_batch' = 0 /\ gen' = 0 /\ i' = 0
    /\ x_hat' = << >> /\ loss' = << >> /\ loss_gen' = << >> /\ nsteps' = 0
    /\ depth' = 0 /\ err' = "none"

(* The caller takes what deep_train returned or raised and goes on; the    *)
(* locals of the call are gone.                                            *)
Proceed ==
    /\ pc \in {"done", "failed"}
    /\ DropLocals
    /\ UNCHANGED << fields, coefs, ret >>

(* forward overwriting the coefficient it reads. *)
Forward_clamping(num_itr) ==
    /\ Callable
    /\ LET f == forward(num_itr)
       IN  ret' = [op |-> "forward", status |-> f.status, num_itr |-> num_itr,
                   s |-> f.s, traj |-> f.traj, solution |-> << >>, err |-> RZero]
    /\ inv_omega' = ROne
    /\ UNCHANGED << fields, gamma, omega, r, locals >>

Forward(num_itr) ==
    /\ Callable
    /\ LET f == forward(num_itr)
       IN  ret' = [op |-> "forward", status |-> f.status, num_itr |-> num_itr,
                   s |-> f.s, traj |-> f.traj, solution |-> << >>, err |-> RZero]
    /\ UNCHANGED << fields, coefs, locals >>

(* Solutions a caller passes to evaluate: zero, the initial guess, and the *)
(* estimate f the forward pass reaches.                                    *)
Solutions(f) ==
    {zeros(Rows(y), Rows(A)), matmul(matmul(y, Transpose(H)), Dinv)}
       \cup (IF f.status = "ok" THEN {f.s} ELSE {})

Evaluate(num_itr) ==
    /\ Callable
    /\ LET f == forward(num_itr)
       IN  \E solution \in Solutions(f) :
              LET e == evaluate_with(solution, f)
              IN  ret' = [op |-> "evaluate", status |-> e.status, num_itr |-> num_itr,
                          s |-> << >>, traj |-> << >>, solution |-> solution,
                          err |-> e.err]
    /\ UNCHANGED << fields, coefs, locals >>

-----------------------------------------------------------------------------
(* UnfoldingNet.deep_train, one action per statement.                      *)

Fail(e) ==
    /\ pc' = "failed"
    /\ err' = e

deep_train(t, nb) ==
    /\ Callable
    /\ pc' = "outer"
    /\ total_itr' = t /\ num_batch' = nb
    /\ gen' = 0 /\ i' = 0 /\ x_hat' = << >> /\ loss' = << >>
    /\ loss_gen' = << >> /\ nsteps' = 0 /\ depth' = 0 /\ err' = "none"
    /\ ret' = NoRet
    /\ UNCHANGED << fields, coefs >>

(* for gen in range(total_itr) ... return loss_gen *)
OuterLoop ==
    /\ pc = "outer"
    /\ IF gen < total_itr
       THEN pc' = "inner" /\ i' = 0
       ELSE pc' = "done" /\ i' = i
    /\ UNCHANGED << fields, coefs, total_itr, num_batch, gen, x_hat, loss, loss_gen,
                    nsteps, depth, err, ret >>

(* The inner loop running one batch too many. *)
InnerLoop_inclusive ==
    /\ pc = "inner"
    /\ pc' = IF i <= num_batch THEN "zero_grad" ELSE "append"
    /\ UNCHANGED << fields, coefs, total_itr, num_batch, gen, i, x_hat, loss, loss_gen,
                    nsteps, depth, err, ret >>

(* for i in range(num_batch) *)
InnerLoop ==
    /\ pc = "inner"
    /\ pc' = IF i < num_batch THEN "zero_grad" ELSE "append"
    /\ UNCHANGED << fields, coefs, total_itr, num_batch, gen, i, x_hat, loss, loss_gen,
                    nsteps, depth, err, ret >>

(* optimizer.zero_grad(); the optimizer is the caller's and may raise *)
ZeroGrad ==
    /\ pc = "zero_grad"
    /\ \E raises \in BOOLEAN :
          IF raises THEN Fail("OptimizerError")
          ELSE pc' = "forward" /\ err' = err
    /\ UNCHANGED << fields, coefs, total_itr, num_batch, gen, i, x_hat, loss, loss_gen,
                    nsteps, depth, ret >>

(* deep_train passing the 0-based loop index as the depth. *)
TrainDepth_index == gen

(* the unrolling depth deep_train passes to self(...) *)
TrainDepth == gen + 1

(* x_hat, _ = self(gen + 1) *)
TrainForward ==
    /\ pc = "forward"
    /\ depth' = TrainDepth
    /\ LET f == forward(TrainDepth)
       IN  IF f.status = "ok"
           THEN pc' = "loss" /\ x_hat' = f.s /\ err' = err
           ELSE Fail(f.status) /\ x_hat' = x_hat
    /\ UNCHANGED << fields, coefs, total_itr, num_batch, gen, i, loss, loss_gen,
                    nsteps, ret >>

(* self._A * x_hat is elementwise: an (n, n) by (rows, n) product          *)
(* broadcasts only when rows = n, rows = 1 or n = 1.                       *)
Broadcasts(X, Y) ==
    /\ Cols(X) = Cols(Y) \/ Cols(X) = 1 \/ Cols(Y) = 1
    /\ Rows(X) = Rows(Y) \/ Rows(X) = 1 \/ Rows(Y) = 1

(* loss = loss_func(self._A * x_hat, b).  The value loss_func returns is   *)
(* the caller's; it is identified here by the step that computed it.       *)
Loss ==
    /\ pc = "loss"
    /\ IF ~Broadcasts(A, x_hat)
       THEN Fail("RuntimeError") /\ loss' = loss
       ELSE \E raises \in BOOLEAN :
               IF raises THEN Fail("LossError") /\ loss' = loss
               ELSE pc' = "backward" /\ loss' = << gen + 1, i >> /\ err' = err
    /\ x_hat' = << >>
    /\ UNCHANGED << fields, coefs, total_itr, num_batch, gen, i, loss_gen,
                    nsteps, depth, ret >>

(* loss.backward() *)
Backward ==
    /\ pc = "backward"
    /\ \E raises \in BOOLEAN :
          IF raises THEN Fail("AutogradError")
          ELSE pc' = "step" /\ err' = err
    /\ UNCHANGED << fields, coefs, total_itr, num_batch, gen, i, x_hat, loss, loss_gen,
                    nsteps, depth, ret >>

(* What optimizer.step() may leave in the parameters of the instance.      *)
StepCoefs ==
    CASE variant = "SORChebyNet" ->
             /\ inv_omega' \in CoefVals
             /\ gamma' \in VecVals(Len(gamma))
             /\ omega' \in VecVals(Len(omega))
             /\ r' = r
      [] variant = "AORNet" ->
             /\ r' \in CoefVals
             /\ omega' \in CoefVals
             /\ UNCHANGED << inv_omega, gamma >>
      [] OTHER ->
             /\ inv_omega' \in CoefVals
             /\ UNCHANGED << gamma, omega, r >>

(* optimizer.step(), then the end of the loop body *)
OptimizerStep ==
    /\ pc = "step"
    /\ \E raises \in BOOLEAN :
          IF raises
          THEN Fail("OptimizerError") /\ UNCHANGED << coefs, nsteps, i >>
          ELSE /\ StepCoefs
               /\ nsteps' = nsteps + 1
               /\ i' = i + 1
               /\ pc' = "inner" /\ err' = err
    /\ UNCHANGED << fields, total_itr, num_batch, gen, x_hat, loss, loss_gen, depth, ret >>

(* loss_gen.append(loss.item()) after the inner loop *)
AppendLoss ==
    /\ pc = "append"
    /\ IF loss = << >>
       THEN Fail("UnboundLocalError") /\ UNCHANGED << loss_gen, gen >>
       ELSE /\ loss_gen' = Append(loss_gen, loss)
            /\ gen' = gen + 1
            /\ pc' = "outer" /\ err' = err
    /\ UNCHANGED << fields, coefs, total_itr, num_batch, i, x_hat, loss, nsteps, depth, ret >>

Next ==
    \/ \E k \in 0..MaxItr : Forward(k)
    \/ \E k \in 0..MaxItr : Evaluate(k)
    \/ \E t \in 0..MaxGen : \E nb \in 0..MaxBatch : deep_train(t, nb)
    \/ OuterLoop
    \/ InnerLoop
    \/ ZeroGrad
    \/ TrainForward
    \/ Loss
    \/ Backward
    \/ OptimizerStep
    \/ AppendLoss
    \/ Proceed

Spec == Init /\ [][Next]_vars

-----------------------------------------------------------------------------
(* One execution of a variant's loop body on an arbitrary estimate s.      *)
(* For SORChebyNet it is the body at i = 0 entered with                    *)
(* s_old = s_present = s.                                                  *)

(* Estimates of shape (bs, n) with entries 0 or 1. *)
Estimates ==
    {IntMat(X) : X \in [1..Rows(y) -> [1..Rows(A) -> {0, 1}]]}

StepDefined ==
    CASE variant = "SORNet"        -> ~Singular(MAdd(Scale(inv_omega, D), L))
      [] variant = "SORChebyNet"   -> /\ ~Singular(MAdd(Scale(inv_omega, D), L))
                                      /\ Len(gamma) >= 1 /\ Len(omega) >= 1
      [] variant = "AORNet"        -> ~Singular(MSub(L, Scale(r, D)))
      [] variant = "RichardsonNet" -> TRUE

LoopBody(s) ==
    LET yMF == matmul(y, Transpose(H))
    IN  CASE variant = "SORNet" ->
                 SORStep(s, linalg_inv(MAdd(Scale(inv_omega, D), L)), yMF)
          [] variant = "SORChebyNet" ->
                 ChebyBlend(SORStep(s, linalg_inv(MAdd(Scale(inv_omega, D), L)), yMF),
                            s, s, omega[1], gamma[1])
          [] variant = "AORNet" ->
                 AORStep(s, linalg_inv(MSub(L, Scale(r, D))), AORMatrixN, yMF)
          [] variant = "RichardsonNet" ->
                 RichardsonStep(s, yMF)

RecurrenceStep(s) ==
    /\ ret.op = "none"
    /\ StepDefined
    /\ ret' = [op |-> "step", status |-> "ok", num_itr |-> 1, s |-> LoopBody(s),
               traj |-> << >>, solution |-> s, err |-> RZero]
    /\ UNCHANGED << fields, coefs, locals >>

NextStep == \E s \in Estimates : RecurrenceStep(s)

SpecStep == Init /\ [][NextStep]_vars

-----------------------------------------------------------------------------
(* Properties.                                                             *)

Last(q) == q[Len(q)]

AllOnes(v) == \A j \in 1..Len(v) : v[j] = ROne

ForwardReturned == ret.op = "forward" /\ ret.status = "ok"

(* C1: for each of the four variants and every num_itr >= 0, forward       *)
(* returns a trajectory of num_itr + 1 elements whose first element is the *)
(* all-zero estimate of shape (bs, n).  Stated for calls on which the      *)
(* inversion is defined and, for SORChebyNet, num_itr is within the        *)
(* constructed coefficient length.                                         *)
C1_TrajectoryShape ==
    (/\ ret.op = "forward"
     /\ ret.status # "LinAlgError"
     /\ variant = "SORChebyNet" => ret.num_itr <= Len(gamma))
        => /\ ret.status = "ok"
           /\ Len(ret.traj) = ret.num_itr + 1
           /\ ret.traj[1] = zeros(bs, Rows(A))

(* C2: deep_train returns a loss history with exactly total_itr entries,   *)
(* for every total_itr >= 0 and num_batch >= 0: a call that ends either    *)
(* returns such a history or propagates an error raised by the forward     *)
(* pass, the elementwise product or a collaborator.                        *)
PropagatedErrors ==
    {"LinAlgError", "IndexError", "AttributeError", "RuntimeError",
     "OptimizerError", "LossError", "AutogradError"}

C2_LossHistoryLength ==
    /\ pc = "done" => Len(loss_gen) = total_itr
    /\ pc = "failed" => err \in PropagatedErrors

(* C3: evaluate returns a non-negative value that is 0 exactly when the    *)
(* supplied solution equals the final estimate of forward(num_itr).        *)
C3_EvaluateZeroIffEqual ==
    (ret.op = "evaluate" /\ ret.status = "ok")
        => /\ ret.err[1] >= 0
           /\ (ret.err = RZero) <=> (ret.solution = forward(ret.num_itr).s)

C3_Witness ==
    /\ ret.op = "evaluate" /\ ret.status = "ok"
    /\ ret.num_itr >= 1
    /\ ret.err = RZero
    /\ ret.solution # zeros(Rows(y), Rows(A))

(* C4: every inner step of generation g runs the forward recurrence with   *)
(* depth exactly g; over a run the depth never decreases and grows by one  *)
(* from a generation to the next.                                          *)
C4_DepthIsGeneration ==
    /\ [](pc \in {"loss", "backward", "step"} => depth = gen + 1)
    /\ [][pc = "forward" => /\ depth' = gen + 1
                            /\ depth' = IF i = 0 THEN depth + 1 ELSE depth]_vars

C4_Witness ==
    /\ pc = "step" /\ gen = 2 /\ depth = 3 /\ i = 1

(* C5: forward and evaluate leave the coefficients and the stored A, D, L, *)
(* U, D^-1, H, y, bs unchanged; two forward calls with the same num_itr    *)
(* return the same result; the coefficients change only at an optimizer    *)
(* step inside deep_train.                                                 *)
C5_NoSideEffects ==
    [][/\ fields' = fields
       /\ coefs' # coefs => pc = "step"
       /\ (ret.op = "forward" /\ ret'.op = "forward" /\ ret'.num_itr = ret.num_itr)
             => ret' = ret]_vars

C5_Witness ==
    /\ ret.op = "forward" /\ ret.status = "ok" /\ ret.num_itr >= 2
    /\ variant = "AORNet"

(* C6: with gamma[i] = 1 and omega[i] = 1 for all i, SORChebyNet.forward   *)
(* produces the trajectory of SORNet.forward built from the same A, H, y,  *)
(* bs and inv_omega, for every num_itr up to the constructed length.       *)
C6_ChebyReducesToSOR ==
    (/\ variant = "SORChebyNet" /\ ret.op = "forward"
     /\ AllOnes(gamma) /\ AllOnes(omega)
     /\ ret.num_itr <= Len(gamma))
        => /\ ret.status = SORNet_forward(ret.num_itr).status
           /\ ret.traj = SORNet_forward(ret.num_itr).traj

C6_Witness ==
    /\ variant = "SORChebyNet" /\ ForwardReturned
    /\ Len(gamma) = 2 /\ AllOnes(gamma) /\ AllOnes(omega)
    /\ ret.num_itr = 2
    /\ ret.traj[3] # ret.traj[2]

(* C7: a deep_train run that does not fail makes exactly                    *)
(* total_itr * num_batch optimizer steps; each inner step runs in the order *)
(* zero_grad, forward, loss, backward, optimizer step; a failure in any of  *)
(* them ends the run, which then returns no loss history.                   *)
C7_StepOrder ==
    /\ [](pc = "done" => nsteps = total_itr * num_batch)
    /\ [][/\ pc = "zero_grad" => pc' \in {"forward", "failed"}
          /\ pc = "forward"   => pc' \in {"loss", "failed"}
          /\ pc = "loss"      => pc' \in {"backward", "failed"}
          /\ pc = "backward"  => pc' \in {"step", "failed"}
          /\ pc = "step"      => pc' \in {"inner", "failed"}
          /\ pc' = "zero_grad" => pc = "inner"
          /\ nsteps' # nsteps =>
                \/ pc = "step" /\ pc' = "inner" /\ nsteps' = nsteps + 1
                \/ pc' \in {"outer", "idle"} /\ nsteps' = 0
          /\ (pc = "step" /\ pc' = "inner") => nsteps' = nsteps + 1
          /\ pc = "failed" => pc' = "idle"
          /\ pc' = "done" => pc = "outer"]_vars

C7_Witness ==
    /\ pc = "done" /\ total_itr = 2 /\ num_batch = 2 /\ nsteps = 4

(* C8 as stated: for every variant and every num_itr >= 0, num_itr = 0     *)
(* included, the final estimate forward returns is the last element of the *)
(* trajectory it returns.                                                  *)
C8_FinalIsLastOfTrajectory ==
    ForwardReturned => ret.s = Last(ret.traj)

(* C8 amended: whenever forward(num_itr) returns, the final estimate is    *)
(* the last element of the trajectory if num_itr >= 1, and for SORChebyNet *)
(* also if num_itr = 0.                                                    *)
C8_FinalIsLastAfterOneStep ==
    (ForwardReturned /\ (ret.num_itr >= 1 \/ variant = "SORChebyNet"))
        => ret.s = Last(ret.traj)

C8_Witness ==
    /\ ForwardReturned /\ variant = "SORNet" /\ ret.num_itr = 2
    /\ ret.traj[3] # ret.traj[2]

(* C9: an estimate s that solves the system, s * A = yMF, is a fixed point *)
(* of one recurrence step of every variant.                                *)
C9_SolutionIsFixedPoint ==
    (ret.op = "step" /\ matmul(ret.solution, A) = matmul(y, Transpose(H)))
        => ret.s = ret.solution

(* C10 as stated: for a SORChebyNet of coefficient length K, forward(k)    *)
(* succeeds for every 0 <= k <= K and fails with an index error for every  *)
(* k > K; deep_train with total_itr > K fails on the first inner step of   *)
(* generation K + 1 and returns no loss history.                           *)
C10_IndexErrorBeyondLength ==
    variant = "SORChebyNet" =>
        /\ ret.op = "forward" =>
              ret.status = IF ret.num_itr <= Len(gamma) THEN "ok" ELSE "IndexError"
        /\ (pc \in {"done", "failed"} /\ total_itr > Len(gamma)) =>
              /\ pc = "failed" /\ err = "IndexError"
              /\ gen = Len(gamma) /\ i = 0

(* C10 amended: with inv_omega non-zero, forward(k) succeeds for every     *)
(* 0 <= k <= K and fails with an index error for every k > K; deep_train   *)
(* with total_itr > K returns no loss history, and when it fails with the  *)
(* index error it does so on the first inner step of generation K + 1,     *)
(* after K * num_batch optimizer steps.                                    *)
C10_IndexErrorWhenInvertible ==
    variant = "SORChebyNet" =>
        /\ (ret.op = "forward" /\ inv_omega # RZero) =>
              ret.status = IF ret.num_itr <= Len(gamma) THEN "ok" ELSE "IndexError"
        /\ total_itr > Len(gamma) => pc # "done"
        /\ (pc = "failed" /\ err = "IndexError") =>
              /\ gen = Len(gamma) /\ i = 0 /\ depth = Len(gamma) + 1
              /\ nsteps = Len(gamma) * num_batch

C10_Witness ==
    /\ variant = "SORChebyNet" /\ pc = "failed" /\ err = "IndexError"
    /\ Len(gamma) = 2 /\ nsteps = 4

=============================================================================
